---- MODULE Spec2Model ----
(***************************************************************************)
(* CondoSwift backend: the authentication routes (src/routes/auth.js)      *)
(* behind the general /api/ rate limiter (src/server.js).                  *)
(*                                                                         *)
(* One client (one IP) talks to one server process.  Time is the value of  *)
(* Date.now() in milliseconds.  A request handler runs without             *)
(* interruption up to its first await on bcrypt; register and login are    *)
(* therefore two steps each (Begin, then Finish once the hash or compare   *)
(* has resolved), and every other handler is one step.                     *)
(*                                                                         *)
(* The environment is bounded by a workload, fixed at start: what the      *)
(* client does in a run is limited by the workload's caps (see Workloads). *)
(* The handlers themselves are the same under every workload.              *)
(***************************************************************************)
EXTENDS Integers, Sequences, FiniteSets, Bags, TLC

VARIABLES
    now,              \* Date.now(), milliseconds
    JWT_EXPIRES_IN,   \* process.env.JWT_EXPIRES_IN, in seconds; Unset when absent
    users,            \* const users = []
    sessions,         \* const sessions = []
    generalHits,      \* hits of server.js `limiter`, per client key
    authHits,         \* hits of auth.js `authLimiter`, per client key
    pendingRegister,  \* register handlers suspended at `await bcrypt.hash`
    pendingLogin,     \* login handlers suspended at `await bcrypt.compare`
    resp,             \* the response written by the last step (NoResp if none)
    issued,           \* history: tokens returned by a successful login
    revoked,          \* history: issued tokens later carried by a served logout
    onlyBad,          \* history: every register/login counted in the current
                      \*   auth window was a login answered BadCredential
    workload          \* environment: the caps on what the client does

vars == <<now, JWT_EXPIRES_IN, users, sessions, generalHits, authHits,
          pendingRegister, pendingLogin, resp, issued, revoked, onlyBad, workload>>

(***************************************************************************)
(* Bounds of the model.                                                    *)
(***************************************************************************)
MaxUsers == 2          \* user records created in one run
MaxSessions == 2       \* session rows, and tokens issued, in one run
MaxInFlight == 2       \* handlers suspended at a bcrypt await at one time
MaxAttempts == 4       \* register/login requests per window, unless flooding
MaxOther == 2          \* logout/me/stats requests per window, outside polling

(***************************************************************************)
(* Program constants.                                                      *)
(***************************************************************************)
WindowMs == 15 * 60 * 1000                 \* both limiters' windowMs
GeneralMax == 100                          \* limiter.max
AuthMax == 5                               \* authLimiter.max
SessionMs == 7 * 24 * 60 * 60 * 1000       \* session lifetime, login handler

Clients == {"ip1"}

Unset == -1
\* Configured token lifetimes, seconds: "15m", "30d", and no setting.
Lifetimes == {15 * 60, 30 * 24 * 60 * 60, Unset}

\* The instants the clock is observed at.
Times == {0, WindowMs, SessionMs, SessionMs + 1}

\* Milliseconds the clock may advance between two reads inside one handler.
ClockSkews == {0, 1}

\* Workloads.  "overlap": requests overlap at the bcrypt awaits, all at one
\* clock reading.  "ageing": one account whose sessions age past
\* their expiry.  "flood": one account, and a client that spends its rate
\* limits.  "jitter": one account, and a clock that may advance between the
\* reads of one handler.
Workloads ==
    { [name |-> "overlap", times |-> {0}, skews |-> {0}, users |-> MaxUsers,
       sessions |-> MaxSessions, inFlight |-> MaxInFlight,
       attempts |-> MaxAttempts, polling |-> FALSE],
      [name |-> "ageing", times |-> Times, skews |-> {0}, users |-> 1,
       sessions |-> MaxSessions, inFlight |-> 1,
       attempts |-> 2, polling |-> FALSE],
      [name |-> "flood", times |-> {0, WindowMs}, skews |-> {0}, users |-> 1,
       sessions |-> 1, inFlight |-> 1,
       attempts |-> AuthMax + 1, polling |-> TRUE],
      [name |-> "jitter", times |-> {0}, skews |-> ClockSkews, users |-> 1,
       sessions |-> MaxSessions, inFlight |-> 1,
       attempts |-> 3, polling |-> FALSE] }

(***************************************************************************)
(* Request inputs.  Strings that the code inspects character by character  *)
(* are sequences of one-character strings.                                 *)
(***************************************************************************)
Emails == { <<"a", "@", "x">>, <<"A", "@", "x">>, <<"b", "@", "x">>, <<"a", "x">> }
UserTypes == { "owner", "agent", "buyer" }    \* the three Thai role names

GoodBody(email) ==
    [fullName |-> <<" ", "S", "o">>, phone |-> <<0, 8, 1, 2, 3, 4, 5, 6, 7, 8>>,
     email |-> email, password |-> "longenough1", userType |-> "buyer"]

\* Well-formed bodies for every address, and one body per failing validator.
RegisterBodies ==
    {GoodBody(e) : e \in Emails}
        \cup { [GoodBody(<<"b", "@", "x">>) EXCEPT !.fullName = <<" ", "S", " ">>],
               [GoodBody(<<"b", "@", "x">>) EXCEPT !.phone = <<8, 1, 2>>],
               [GoodBody(<<"b", "@", "x">>) EXCEPT !.password = "short"],
               [GoodBody(<<"b", "@", "x">>) EXCEPT !.userType = "admin"] }

LoginBodies ==
    [email : Emails, password : {"longenough1", "wrongpass99"}]
        \cup { [email |-> <<"a", "@", "x">>, password |-> ""] }

(***************************************************************************)
(* express-validator chains.                                               *)
(***************************************************************************)
ToLower(c) == CASE c = "A" -> "a" [] c = "B" -> "b" [] c = "X" -> "x" [] OTHER -> c

\* Variant: the chain without its sanitizer.
normalizeEmail_absent(e) == e

\* validator.js normalizeEmail with its defaults: the address is lower-cased.
normalizeEmail(e) == [i \in DOMAIN e |-> ToLower(e[i])]

\* validator.js isEmail: local part, one "@", domain.
isEmail(e) ==
    /\ Cardinality({i \in DOMAIN e : e[i] = "@"}) = 1
    /\ e[1] # "@"
    /\ e[Len(e)] # "@"

RECURSIVE TrimLeft(_)
TrimLeft(s) == IF s # <<>> /\ Head(s) = " " THEN TrimLeft(Tail(s)) ELSE s

RECURSIVE TrimRight(_)
TrimRight(s) ==
    IF s # <<>> /\ s[Len(s)] = " " THEN TrimRight(SubSeq(s, 1, Len(s) - 1)) ELSE s

trim(s) == TrimRight(TrimLeft(s))

\* /^0[0-9]{8,9}$/
phoneMatches(p) ==
    /\ Len(p) \in {9, 10}
    /\ p[1] = 0
    /\ \A i \in DOMAIN p : p[i] \in 0..9

validateRegister(b) ==
    /\ Len(trim(b.fullName)) >= 2
    /\ phoneMatches(b.phone)
    /\ isEmail(b.email)
    /\ Len(b.password) >= 8
    /\ b.userType \in UserTypes

validateLogin(b) ==
    /\ isEmail(b.email)
    /\ b.password # ""

\* req.body after the sanitizers of validateRegister / validateLogin have run.
SanitizedRegister(b) ==
    [b EXCEPT !.fullName = trim(b.fullName), !.email = normalizeEmail(b.email)]

SanitizedLogin(b) == [b EXCEPT !.email = normalizeEmail(b.email)]

(***************************************************************************)
(* bcryptjs: a hash matches exactly the password it was made from.         *)
(***************************************************************************)
bcryptHash(password) == <<"$2a$", password>>
bcryptCompare(password, hash) == hash = bcryptHash(password)

(***************************************************************************)
(* jsonwebtoken.  A token is its signed payload: HS256 is deterministic,   *)
(* so two tokens are the same string exactly when their payloads agree.    *)
(* iat and exp are in seconds.  signed = FALSE is a string that does not   *)
(* verify under JWT_SECRET.                                                *)
(***************************************************************************)
jwtSign(payload, t, expiresIn) ==
    [userId |-> payload.userId, timestamp |-> payload.timestamp,
     iat |-> t \div 1000, exp |-> (t \div 1000) + expiresIn, signed |-> TRUE]

\* jwt.sign throws when expiresIn is undefined.
jwtSignThrows(expiresIn) == expiresIn = Unset

\* Variant: a verify that checks the signature only.
jwtVerifyThrows_signatureOnly(token, t) == ~token.signed

\* jwt.verify throws on a bad signature and once the exp second is reached.
jwtVerifyThrows(token, t) == ~token.signed \/ (t \div 1000) >= token.exp

\* Variant: a payload that carries the first user's id.
generateToken_firstUser(userId, t) ==
    jwtSign([userId |-> 1, timestamp |-> t], t, JWT_EXPIRES_IN)

generateToken(userId, t) ==
    jwtSign([userId |-> userId, timestamp |-> t], t, JWT_EXPIRES_IN)

ForgedToken == [userId |-> 1, timestamp |-> 0, iat |-> 0, exp |-> 0, signed |-> FALSE]

(***************************************************************************)
(* The Authorization header: absent, or a string that may start with the   *)
(* 'Bearer ' scheme and carries a credential (possibly none).              *)
(* authorization?.replace('Bearer ', '') is undefined without a header and *)
(* otherwise the string without the scheme; the result is the set holding  *)
(* the token, empty when it is undefined or ''.                            *)
(***************************************************************************)
NoHeader == [present |-> FALSE, bearer |-> FALSE, cred |-> {}]

Headers(tokens) ==
    {NoHeader}
        \cup [present : {TRUE}, bearer : BOOLEAN, cred : {{}} \cup {{t} : t \in tokens}]

bearerToken(h) == IF h.present THEN h.cred ELSE {}

(***************************************************************************)
(* Helpers over the two arrays.                                            *)
(***************************************************************************)
\* users.find(user => user.email === email): the index, 0 when undefined.
findUserByEmail(email) ==
    IF \E i \in DOMAIN users : users[i].email = email
    THEN CHOOSE i \in DOMAIN users :
            /\ users[i].email = email
            /\ \A j \in DOMAIN users : users[j].email = email => i <= j
    ELSE 0

\* Variant: ids taken as zero-based.
findUserById_zeroBased(id) ==
    IF \E i \in DOMAIN users : users[i].id = id - 1
    THEN CHOOSE i \in DOMAIN users :
            /\ users[i].id = id - 1
            /\ \A j \in DOMAIN users : users[j].id = id - 1 => i <= j
    ELSE 0

\* users.find(u => u.id === id)
findUserById(id) ==
    IF \E i \in DOMAIN users : users[i].id = id
    THEN CHOOSE i \in DOMAIN users :
            /\ users[i].id = id
            /\ \A j \in DOMAIN users : users[j].id = id => i <= j
    ELSE 0

\* Variant: the row is looked up by the token's user, not by the token.
findSessionIndex_byUser(token) ==
    IF \E i \in DOMAIN sessions : sessions[i].userId = token.userId
    THEN CHOOSE i \in DOMAIN sessions :
            /\ sessions[i].userId = token.userId
            /\ \A j \in DOMAIN sessions : sessions[j].userId = token.userId => i <= j
    ELSE 0

\* sessions.findIndex(s => s.token === token), 1-based; 0 for -1.
findSessionIndex(token) ==
    IF \E i \in DOMAIN sessions : sessions[i].token = token
    THEN CHOOSE i \in DOMAIN sessions :
            /\ sessions[i].token = token
            /\ \A j \in DOMAIN sessions : sessions[j].token = token => i <= j
    ELSE 0

\* Variant: splice(i) without a delete count removes every row from i on.
splice_noCount(seq, i) == SubSeq(seq, 1, i - 1)

\* sessions.splice(i, 1)
splice(seq, i) == SubSeq(seq, 1, i - 1) \o SubSeq(seq, i + 1, Len(seq))

userResponse(u) ==
    [id |-> u.id, fullName |-> u.fullName, email |-> u.email,
     userType |-> u.userType, verified |-> u.verified,
     profileComplete |-> u.profileComplete]

meResponse(u) ==
    [id |-> u.id, fullName |-> u.fullName, email |-> u.email, phone |-> u.phone,
     userType |-> u.userType, verified |-> u.verified,
     profileComplete |-> u.profileComplete, createdAt |-> u.createdAt,
     lastLogin |-> u.lastLogin]

(***************************************************************************)
(* Responses.  msg is a tag for the (Thai) message text.                   *)
(* Beside the status and body, a response records what its request         *)
(* carried: the email of a register/login body (as sent; as sanitized      *)
(* when the answer follows the bcrypt await), the bearer token of a        *)
(* logout/me request.  stats holds the stats object of a stats answer.     *)
(***************************************************************************)
Response(op, status, msg) ==
    [op |-> op, status |-> status, msg |-> msg, email |-> {}, reqToken |-> {},
     token |-> {}, user |-> {}, stats |-> {}]

NoResp == Response("none", 0, "")

(***************************************************************************)
(* express-rate-limit 6.x with its memory store: every request adds one    *)
(* hit under the client's key and is refused once the hits exceed max; a   *)
(* timer clears all hits every windowMs.  Both limiters are created while  *)
(* server.js loads, so their windows turn over together.                   *)
(***************************************************************************)
increment(hits, c) == [hits EXCEPT ![c] = @ + 1]

\* Variant: the comparison off by one.
limiterRejects_offByOne(hits, c) == hits[c] + 1 > GeneralMax + 1

limiterRejects(hits, c) == hits[c] + 1 > GeneralMax

\* Variant: the comparison off by one.
authLimiterRejects_offByOne(hits, c) == hits[c] + 1 > AuthMax + 1

authLimiterRejects(hits, c) == hits[c] + 1 > AuthMax

\* After polling the client's general window is nearly spent.
Polled(c) == generalHits[c] >= GeneralMax - 1

\* A client does not repeat refused requests for ever, and outside polling it
\* sends few requests that are not register or login.
CanSend(c) ==
    \/ ~Polled(c) /\ generalHits[c] - authHits[c] < MaxOther
    \/ Polled(c) /\ generalHits[c] <= GeneralMax

CanSendAuth(c) ==
    /\ authHits[c] < workload.attempts
    /\ Polled(c) => generalHits[c] <= GeneralMax

InFlight == BagCardinality(pendingRegister) + BagCardinality(pendingLogin)

(***************************************************************************)
(* Initial state: module load.                                             *)
(***************************************************************************)
Init ==
    /\ now = 0
    /\ JWT_EXPIRES_IN \in Lifetimes
    /\ users = <<>>
    /\ sessions = <<>>
    /\ generalHits = [c \in Clients |-> 0]
    /\ authHits = [c \in Clients |-> 0]
    /\ pendingRegister = EmptyBag
    /\ pendingLogin = EmptyBag
    /\ resp = NoResp
    /\ issued = {}
    /\ revoked = {}
    /\ onlyBad = TRUE
    /\ workload \in Workloads

\* Variant: a refusal that also drops the session list.
earlyReturn_dropsSessions(r) ==
    /\ resp' = r
    /\ users' = users
    /\ sessions' = <<>>

\* A middleware or handler answers and returns: nothing after it runs.
earlyReturn(r) ==
    /\ resp' = r
    /\ UNCHANGED <<users, sessions>>

(***************************************************************************)
(* POST /api/auth/register                                                 *)
(***************************************************************************)
RegisterBegin(c, raw) ==
    LET body == SanitizedRegister(raw)
        R(status, msg) ==
            [Response("register", status, msg) EXCEPT !.email = {raw.email}]
    IN
    /\ CanSendAuth(c)
    /\ generalHits' = increment(generalHits, c)
    /\ UNCHANGED <<now, JWT_EXPIRES_IN, pendingLogin, issued, revoked, workload>>
    /\ IF limiterRejects(generalHits, c)
       THEN /\ earlyReturn(R(429, "too-many-requests"))
            /\ UNCHANGED <<authHits, pendingRegister, onlyBad>>
       ELSE
       /\ authHits' = increment(authHits, c)
       /\ onlyBad' = FALSE
       /\ IF authLimiterRejects(authHits, c)
          THEN /\ earlyReturn(R(429, "too-many-auth"))
               /\ UNCHANGED pendingRegister
          ELSE IF ~validateRegister(raw)
          THEN /\ earlyReturn(R(400, "invalid-input"))
               /\ UNCHANGED pendingRegister
          ELSE IF findUserByEmail(body.email) # 0
          THEN /\ earlyReturn(R(409, "email-taken"))
               /\ UNCHANGED pendingRegister
          ELSE \* await bcrypt.hash(...)
               /\ InFlight < workload.inFlight
               /\ Len(users) + BagCardinality(pendingRegister) < workload.users
               /\ pendingRegister' = pendingRegister (+) SetToBag({body})
               /\ resp' = NoResp
               /\ UNCHANGED <<users, sessions>>

\* Variant: the id taken as users.length, without the + 1.
RegisterFinish_idFromLength(body) ==
    LET newUser ==
            [id |-> Len(users), fullName |-> body.fullName,
             phone |-> body.phone, email |-> body.email,
             password |-> bcryptHash(body.password), userType |-> body.userType,
             verified |-> FALSE, createdAt |-> now, profileComplete |-> FALSE,
             lastLogin |-> {}]
    IN
    /\ BagIn(body, pendingRegister)
    /\ pendingRegister' = pendingRegister (-) SetToBag({body})
    /\ users' = Append(users, newUser)
    /\ resp' = [Response("register", 201, "registered")
                    EXCEPT !.email = {body.email}, !.user = {userResponse(newUser)}]
    /\ UNCHANGED <<now, JWT_EXPIRES_IN, sessions, generalHits, authHits,
                   pendingLogin, issued, revoked, onlyBad, workload>>

\* Variant: a register that also opens a session and returns its token.
RegisterFinish_autoLogin(body) ==
    LET newUser ==
            [id |-> Len(users) + 1, fullName |-> body.fullName,
             phone |-> body.phone, email |-> body.email,
             password |-> bcryptHash(body.password), userType |-> body.userType,
             verified |-> FALSE, createdAt |-> now, profileComplete |-> FALSE,
             lastLogin |-> {}]
        token == jwtSign([userId |-> newUser.id, timestamp |-> now], now, 15 * 60)
    IN
    /\ BagIn(body, pendingRegister)
    /\ pendingRegister' = pendingRegister (-) SetToBag({body})
    /\ users' = Append(users, newUser)
    /\ sessions' = Append(sessions,
            [userId |-> newUser.id, token |-> token, createdAt |-> now,
             expiresAt |-> now + SessionMs])
    /\ resp' = [Response("register", 201, "registered")
                    EXCEPT !.email = {body.email}, !.user = {userResponse(newUser)},
                           !.token = {token}]
    /\ UNCHANGED <<now, JWT_EXPIRES_IN, generalHits, authHits,
                   pendingLogin, issued, revoked, onlyBad, workload>>

RegisterFinish(body) ==
    LET newUser ==
            [id |-> Len(users) + 1, fullName |-> body.fullName,
             phone |-> body.phone, email |-> body.email,
             password |-> bcryptHash(body.password), userType |-> body.userType,
             verified |-> FALSE, createdAt |-> now, profileComplete |-> FALSE,
             lastLogin |-> {}]
    IN
    /\ BagIn(body, pendingRegister)
    /\ pendingRegister' = pendingRegister (-) SetToBag({body})
    /\ users' = Append(users, newUser)
    /\ resp' = [Response("register", 201, "registered")
                    EXCEPT !.email = {body.email}, !.user = {userResponse(newUser)}]
    /\ UNCHANGED <<now, JWT_EXPIRES_IN, sessions, generalHits, authHits,
                   pendingLogin, issued, revoked, onlyBad, workload>>

(***************************************************************************)
(* POST /api/auth/login                                                    *)
(***************************************************************************)
\* Variant: an answer that names the cause.
noSuchUserResponse_named == Response("login", 404, "user-not-found")

\* The two 401 answers of the handler.
noSuchUserResponse == Response("login", 401, "bad-email-or-password")

wrongPasswordResponse == Response("login", 401, "bad-email-or-password")

LoginBegin(c, raw) ==
    LET body == SanitizedLogin(raw)
        user == findUserByEmail(body.email)
        R(status, msg) ==
            [Response("login", status, msg) EXCEPT !.email = {raw.email}]
    IN
    /\ CanSendAuth(c)
    /\ generalHits' = increment(generalHits, c)
    /\ UNCHANGED <<now, JWT_EXPIRES_IN, pendingRegister, issued, revoked, workload>>
    /\ IF limiterRejects(generalHits, c)
       THEN /\ earlyReturn(R(429, "too-many-requests"))
            /\ UNCHANGED <<authHits, pendingLogin, onlyBad>>
       ELSE
       /\ authHits' = increment(authHits, c)
       /\ IF authLimiterRejects(authHits, c)
          THEN /\ earlyReturn(R(429, "too-many-auth"))
               /\ UNCHANGED <<pendingLogin, onlyBad>>
          ELSE IF ~validateLogin(raw)
          THEN /\ earlyReturn(R(400, "invalid-input"))
               /\ onlyBad' = FALSE
               /\ UNCHANGED pendingLogin
          ELSE IF user = 0
          THEN /\ earlyReturn([noSuchUserResponse EXCEPT !.email = {raw.email}])
               /\ UNCHANGED <<pendingLogin, onlyBad>>
          ELSE \* await bcrypt.compare(password, user.password)
               /\ InFlight < workload.inFlight
               /\ Len(sessions) + BagCardinality(pendingLogin) < workload.sessions
               /\ Cardinality(issued) + BagCardinality(pendingLogin) < workload.sessions
               /\ pendingLogin' = pendingLogin
                        (+) SetToBag({[user |-> user, email |-> body.email,
                                       password |-> body.password]})
               /\ resp' = NoResp
               /\ UNCHANGED <<users, sessions, onlyBad>>

\* Variant: lastLogin written before the token is signed.
loginError_afterTouch(p) ==
    /\ resp' = [Response("login", 500, "login-error") EXCEPT !.email = {p.email}]
    /\ users' = [users EXCEPT ![p.user].lastLogin = {now}]
    /\ UNCHANGED <<sessions, issued, revoked>>

\* catch (error): 500, nothing stored.
loginError(p) ==
    /\ resp' = [Response("login", 500, "login-error") EXCEPT !.email = {p.email}]
    /\ UNCHANGED <<users, sessions, issued, revoked>>

\* The handler reads the clock for createdAt (new Date()) and again for
\* expiresAt (Date.now()); the clock may have advanced in between.
LoginFinish(p) ==
    LET user == users[p.user]
        token == generateToken(user.id, now)
    IN
    /\ BagIn(p, pendingLogin)
    /\ pendingLogin' = pendingLogin (-) SetToBag({p})
    /\ UNCHANGED <<JWT_EXPIRES_IN, generalHits, authHits, pendingRegister,
                   workload>>
    /\ IF ~bcryptCompare(p.password, user.password)
       THEN /\ earlyReturn([wrongPasswordResponse EXCEPT !.email = {p.email}])
            /\ UNCHANGED <<now, issued, revoked, onlyBad>>
       ELSE IF jwtSignThrows(JWT_EXPIRES_IN)
       THEN /\ loginError(p)
            /\ onlyBad' = FALSE
            /\ UNCHANGED now
       ELSE /\ users' = [users EXCEPT ![p.user].lastLogin = {now}]
            /\ \E d \in workload.skews : now' = now + d
            /\ sessions' = Append(sessions,
                    [userId |-> user.id, token |-> token, createdAt |-> now,
                     expiresAt |-> now' + SessionMs])
            /\ resp' = [Response("login", 200, "logged-in")
                            EXCEPT !.email = {p.email}, !.token = {token},
                                   !.user = {userResponse(user)}]
            /\ issued' = issued \cup {token}
            /\ revoked' = revoked \ {token}
            /\ onlyBad' = FALSE

(***************************************************************************)
(* POST /api/auth/logout                                                   *)
(***************************************************************************)
Logout(c, h) ==
    LET token == bearerToken(h)
        sessionIndex == IF token = {} THEN 0
                        ELSE findSessionIndex(CHOOSE t \in token : TRUE)
        R(status, msg) == [Response("logout", status, msg) EXCEPT !.reqToken = token]
    IN
    /\ CanSend(c)
    /\ generalHits' = increment(generalHits, c)
    /\ UNCHANGED <<now, JWT_EXPIRES_IN, authHits, pendingRegister,
                   pendingLogin, issued, onlyBad, workload>>
    /\ IF limiterRejects(generalHits, c)
       THEN /\ earlyReturn(R(429, "too-many-requests"))
            /\ UNCHANGED revoked
       ELSE /\ sessions' = IF sessionIndex > 0 THEN splice(sessions, sessionIndex)
                           ELSE sessions
            /\ resp' = R(200, "logged-out")
            /\ revoked' = revoked \cup (token \cap issued)
            /\ UNCHANGED users

(***************************************************************************)
(* GET /api/auth/me                                                        *)
(***************************************************************************)
Me(c, h) ==
    LET token == bearerToken(h)
        t == CHOOSE x \in token : TRUE
        sessionIndex == findSessionIndex(t)
        user == findUserById(t.userId)
        R(status, msg) == [Response("me", status, msg) EXCEPT !.reqToken = token]
    IN
    /\ CanSend(c)
    /\ generalHits' = increment(generalHits, c)
    /\ UNCHANGED <<now, JWT_EXPIRES_IN, users, sessions, authHits, pendingRegister,
                   pendingLogin, issued, revoked, onlyBad, workload>>
    /\ resp' =
         IF limiterRejects(generalHits, c) THEN R(429, "too-many-requests")
         ELSE IF token = {} THEN R(401, "no-token")
         ELSE IF jwtVerifyThrows(t, now) THEN R(401, "token-invalid")
         ELSE IF sessionIndex = 0 \/ sessions[sessionIndex].expiresAt < now
              THEN R(401, "token-expired")
         ELSE IF user = 0 THEN R(404, "user-not-found")
         ELSE [R(200, "ok") EXCEPT !.user = {meResponse(users[user])}]

(***************************************************************************)
(* GET /api/auth/stats                                                     *)
(***************************************************************************)
\* The stats object the handler builds at clock reading t.
stats(t) ==
    [totalUsers |-> Len(users),
     verifiedUsers |-> Cardinality({i \in DOMAIN users : users[i].verified}),
     usersByType |->
        [ty \in UserTypes |-> Cardinality({i \in DOMAIN users : users[i].userType = ty})],
     activeSessions |->
        Cardinality({i \in DOMAIN sessions : sessions[i].expiresAt > t})]

\* Variant: the route mounted behind authLimiter.
Stats_behindAuthLimiter(c) ==
    /\ CanSend(c)
    /\ generalHits' = increment(generalHits, c)
    /\ UNCHANGED <<now, JWT_EXPIRES_IN, users, sessions, pendingRegister,
                   pendingLogin, issued, revoked, onlyBad, workload>>
    /\ IF limiterRejects(generalHits, c)
       THEN /\ resp' = Response("stats", 429, "too-many-requests")
            /\ UNCHANGED authHits
       ELSE /\ authHits' = increment(authHits, c)
            /\ resp' = IF authLimiterRejects(authHits, c)
                       THEN Response("stats", 429, "too-many-auth")
                       ELSE [Response("stats", 200, "ok") EXCEPT !.stats = {stats(now)}]

Stats(c) ==
    /\ CanSend(c)
    /\ generalHits' = increment(generalHits, c)
    /\ UNCHANGED <<now, JWT_EXPIRES_IN, users, sessions, authHits, pendingRegister,
                   pendingLogin, issued, revoked, onlyBad, workload>>
    /\ resp' = IF limiterRejects(generalHits, c)
               THEN Response("stats", 429, "too-many-requests")
               ELSE [Response("stats", 200, "ok") EXCEPT !.stats = {stats(now)}]

(***************************************************************************)
(* GET /api/health, repeated: the client polls until one request is left   *)
(* in its general window.  Each poll only adds a hit.                      *)
(***************************************************************************)
HealthPolling(c) ==
    /\ workload.polling
    /\ generalHits[c] < GeneralMax - 1
    /\ generalHits' = [generalHits EXCEPT ![c] = GeneralMax - 1]
    /\ resp' = Response("health", 200, "OK")
    /\ UNCHANGED <<now, JWT_EXPIRES_IN, users, sessions, authHits, pendingRegister,
                   pendingLogin, issued, revoked, onlyBad, workload>>

(***************************************************************************)
(* Time passes to instant t.  When a window boundary is crossed the        *)
(* stores' timers have cleared all hits.                                   *)
(***************************************************************************)
Tick(t) ==
    /\ t > now
    /\ now' = t
    /\ resp' = NoResp
    /\ IF t \div WindowMs > now \div WindowMs
       THEN /\ generalHits' = [c \in Clients |-> 0]
            /\ authHits' = [c \in Clients |-> 0]
            /\ onlyBad' = TRUE
       ELSE UNCHANGED <<generalHits, authHits, onlyBad>>
    /\ UNCHANGED <<JWT_EXPIRES_IN, users, sessions, pendingRegister, pendingLogin,
                   issued, revoked, workload>>

\* Tokens a client can present: those it was given, and one that does not verify.
KnownTokens == issued \cup {ForgedToken}

Next ==
    \/ \E c \in Clients, b \in RegisterBodies : RegisterBegin(c, b)
    \/ \E b \in BagToSet(pendingRegister) : RegisterFinish(b)
    \/ \E c \in Clients, b \in LoginBodies : LoginBegin(c, b)
    \/ \E p \in BagToSet(pendingLogin) : LoginFinish(p)
    \/ \E c \in Clients, h \in Headers(KnownTokens) : Logout(c, h)
    \/ \E c \in Clients, h \in Headers(KnownTokens) : Me(c, h)
    \/ \E c \in Clients : Stats(c)
    \/ \E c \in Clients : HealthPolling(c)
    \/ \E t \in workload.times : Tick(t)

Spec == Init /\ [][Next]_vars

(***************************************************************************)
(* Properties.  In the step properties the conjuncts that only read the    *)
(* two states come before the action they select, so that the action is    *)
(* evaluated on few steps; the order does not change what is stated.       *)
(***************************************************************************)

\* C1: in every reachable state, interleavings of concurrent register
\* requests included, the user list holds at most one user per normalized
\* email.
C1_OneUserPerEmail ==
    \A i, j \in DOMAIN users : users[i].email = users[j].email => i = j

\* C2: once a token returned by a successful login has been carried by a
\* logout, and no later login has returned it again, a whoami with that
\* token is not accepted.
C2_LoggedOutTokenRejected ==
    (resp.op = "me" /\ resp.reqToken \cap revoked # {}) => resp.status # 200

\* C8: in every reachable state the session list holds at most one row per
\* token.
C8_OneRowPerToken ==
    \A i, j \in DOMAIN sessions : sessions[i].token = sessions[j].token => i = j

\* The session row a whoami looks up for the token it carried.
SessionOf(t) == sessions[findSessionIndex(t)]

\* A whoami that the general limiter admitted, carrying a validly signed
\* token whose session row is in the registry.
MeWithSession ==
    /\ resp.op = "me"
    /\ resp.status # 429
    /\ \E t \in resp.reqToken : t.signed /\ findSessionIndex(t) # 0

\* C3 as stated: for a token whose session row is present, whoami fails at
\* every time strictly after the row's expiresAt and succeeds at every time
\* strictly before it, whatever the configured token lifetime.
C3_SessionRecordAloneDecides ==
    MeWithSession =>
        \A t \in resp.reqToken :
            /\ now > SessionOf(t).expiresAt => resp.status = 401
            /\ now < SessionOf(t).expiresAt => resp.status = 200

\* C3 amended: whoami fails (401) at every time strictly after the row's
\* expiresAt; at a time strictly before it, whoami succeeds exactly when
\* the exp second carried by the signed token has not been reached, and
\* fails with 401 otherwise.
C3_SessionAndTokenExpiry ==
    MeWithSession =>
        \A t \in resp.reqToken :
            /\ now > SessionOf(t).expiresAt => resp.status = 401
            /\ now < SessionOf(t).expiresAt =>
                    /\ resp.status \in {200, 401}
                    /\ resp.status = 200 <=> (now \div 1000) < t.exp

\* C3 witness: a whoami refused strictly before its session's expiresAt,
\* because the token's own exp has passed.
C3_Witness ==
    /\ MeWithSession
    /\ resp.status = 401
    /\ \E t \in resp.reqToken :
            now < SessionOf(t).expiresAt /\ (now \div 1000) >= t.exp

\* The rate limiters let a register/login request of client c through.
Admitted(c) == ~limiterRejects(generalHits, c) /\ ~authLimiterRejects(authHits, c)

\* C4: after 5 login attempts in one auth window, all answered
\* BadCredential, a further attempt in that window is answered RateLimited
\* (429) and goes no further; when the window has elapsed the counters are
\* back at zero, and the first attempt of the new window is counted as its
\* first and answered on its credentials: 400 for a malformed body, 401
\* when no user has the email, else the password comparison is started.
C4_SixthAttemptLimited ==
    [][\A c \in Clients :
        /\ \A b \in LoginBodies :
              (onlyBad /\ authHits[c] = AuthMax /\ LoginBegin(c, b))
                => (resp'.status = 429 /\ pendingLogin' = pendingLogin)
        /\ (now' \div WindowMs > now \div WindowMs)
              => (authHits'[c] = 0 /\ generalHits'[c] = 0)
        /\ \A b \in LoginBodies :
              (authHits[c] = 0 /\ generalHits[c] = 0 /\ LoginBegin(c, b))
                => /\ authHits'[c] = 1
                   /\ IF ~validateLogin(b) THEN resp'.status = 400
                      ELSE IF \A i \in DOMAIN users :
                                  users[i].email # normalizeEmail(b.email)
                      THEN resp'.status = 401
                      ELSE resp' = NoResp
                           /\ BagCardinality(pendingLogin')
                                = BagCardinality(pendingLogin) + 1
      ]_vars

\* C4 witness: the sixth attempt of a window was refused after five
\* attempts that were all answered BadCredential, with an account present.
C4_Witness ==
    /\ resp.op = "login" /\ resp.status = 429 /\ resp.msg = "too-many-auth"
    /\ onlyBad
    /\ \E c \in Clients : authHits[c] = AuthMax + 1
    /\ pendingLogin = EmptyBag
    /\ users # <<>>

\* C5: a register or login request refused by either rate limiter (429) or
\* by input validation (400) leaves the user list, every lastLogin
\* included, and the session list as they were.
C5_RejectedLeavesStores ==
    [][\A c \in Clients :
        /\ \A b \in RegisterBodies :
              (resp'.status \in {400, 429} /\ resp'.op = "register"
                    /\ RegisterBegin(c, b))
                => (users' = users /\ sessions' = sessions)
        /\ \A b \in LoginBodies :
              (resp'.status \in {400, 429} /\ resp'.op = "login"
                    /\ LoginBegin(c, b))
                => (users' = users /\ sessions' = sessions)
      ]_vars

\* C5 witness: the general limiter refused a login while both lists were
\* populated.
C5_Witness ==
    /\ resp.op = "login" /\ resp.status = 429 /\ resp.msg = "too-many-requests"
    /\ sessions # <<>>
    /\ \E i \in DOMAIN users : users[i].lastLogin # {}

\* Two addresses that differ, and only in the case of their letters.
DiffersOnlyByCase(e1, e2) ==
    /\ e1 # e2
    /\ Len(e1) = Len(e2)
    /\ \A i \in DOMAIN e1 : ToLower(e1[i]) = ToLower(e2[i])

\* C6: a well-formed register request that the rate limiters admit, whose
\* email differs only by letter case from a stored user's, is answered 409
\* (DuplicateEmail), adds no user and leaves the session list unchanged.
C6_CaseVariantIsDuplicate ==
    [][\A c \in Clients, b \in RegisterBodies :
        (/\ authHits'[c] = authHits[c] + 1
         /\ Admitted(c)
         /\ \E i \in DOMAIN users : DiffersOnlyByCase(users[i].email, b.email)
         /\ validateRegister(b)
         /\ RegisterBegin(c, b))
          => /\ resp'.status = 409
             /\ users' = users
             /\ sessions' = sessions
             /\ pendingRegister' = pendingRegister
      ]_vars

\* C6 witness: a register carrying a case variant of a stored email was
\* answered 409.
C6_Witness ==
    /\ resp.op = "register" /\ resp.status = 409
    /\ \E e \in resp.email, i \in DOMAIN users :
            DiffersOnlyByCase(users[i].email, e)

\* What the caller sees of a response.
Visible(r) == [status |-> r.status, msg |-> r.msg, token |-> r.token, user |-> r.user]

\* C7: a login that fails because no user has the email gets the answer a
\* wrong password gets, and a login that fails on a wrong password gets
\* the answer a missing user gets (401, same message, no token, no user);
\* neither creates a session or updates a lastLogin.
C7_SameAnswerForBothCauses ==
    [][/\ \A c \in Clients, b \in LoginBodies :
              (/\ authHits'[c] = authHits[c] + 1
               /\ Admitted(c)
               /\ validateLogin(b)
               /\ \A i \in DOMAIN users : users[i].email # normalizeEmail(b.email)
               /\ LoginBegin(c, b))
                => /\ Visible(resp') = Visible(wrongPasswordResponse)
                   /\ resp'.status = 401
                   /\ users' = users /\ sessions' = sessions
       /\ \A p \in BagToSet(pendingLogin) :
              (/\ pendingLogin' # pendingLogin
               /\ ~bcryptCompare(p.password, users[p.user].password)
               /\ LoginFinish(p))
                => /\ Visible(resp') = Visible(noSuchUserResponse)
                   /\ resp'.status = 401
                   /\ users' = users /\ sessions' = sessions
      ]_vars

\* C7 witness: a login was refused for a wrong password (a user with the
\* email exists) while sessions existed.
C7_Witness ==
    /\ resp.op = "login" /\ resp.status = 401
    /\ \E e \in resp.email, i \in DOMAIN users : users[i].email = e
    /\ sessions # <<>>

\* The rows of seq whose token is not in the set token, in order.
OtherRows(seq, token) == SelectSeq(seq, LAMBDA s : s.token \notin token)

\* The effect on the lists of a logout carrying the token set token (empty:
\* none): nothing without a matching row, else one row less and every row
\* of another token kept.
LogoutEffect(token) ==
    /\ users' = users
    /\ (\A i \in DOMAIN sessions : sessions[i].token \notin token)
          => sessions' = sessions
    /\ (\E i \in DOMAIN sessions : sessions[i].token \in token)
          => /\ Len(sessions') = Len(sessions) - 1
             /\ OtherRows(sessions', token) = OtherRows(sessions, token)

\* C9 as stated: every logout request is answered 200, whatever it carries;
\* without a matching token the lists are unchanged, with one only rows of
\* that token are removed.
C9_LogoutAlwaysSucceeds ==
    [][\A c \in Clients, h \in Headers(KnownTokens) :
        (resp'.op = "logout" /\ Logout(c, h))
            => (resp'.status = 200 /\ LogoutEffect(bearerToken(h)))
      ]_vars

\* C9 amended: every logout request that the general rate limiter admits
\* is answered 200, whatever it carries, with the effect above; a logout
\* beyond the general limit is answered 429 and changes neither list.
C9_AdmittedLogoutSucceeds ==
    [][\A c \in Clients, h \in Headers(KnownTokens) :
        (resp'.op = "logout" /\ Logout(c, h)) =>
            IF limiterRejects(generalHits, c)
            THEN resp'.status = 429 /\ users' = users /\ sessions' = sessions
            ELSE resp'.status = 200 /\ LogoutEffect(bearerToken(h))
      ]_vars

\* C9 witness: a logout removed the row of its token and another token's
\* row is still there.
C9_Witness ==
    /\ resp.op = "logout" /\ resp.status = 200
    /\ resp.reqToken # {} /\ resp.reqToken \subseteq revoked
    /\ sessions # <<>>
    /\ \A i \in DOMAIN sessions : sessions[i].token \notin resp.reqToken

\* C10: a login request persists nothing before its password comparison
\* resolves; when it resolves the login either succeeds (200: the password
\* matched, one session row for that user is appended with the returned
\* token, and that user's lastLogin is set) or fails (401 or 500) leaving
\* both lists unchanged.  No step changes a lastLogin without appending a
\* session.
C10_LoginAtomic ==
    [][/\ \A c \in Clients, b \in LoginBodies :
              (users' # users \/ sessions' # sessions) => ~LoginBegin(c, b)
       /\ \A p \in BagToSet(pendingLogin) :
              (pendingLogin' # pendingLogin /\ LoginFinish(p)) =>
                \/ /\ resp'.status = 200
                   /\ bcryptCompare(p.password, users[p.user].password)
                   /\ Len(sessions') = Len(sessions) + 1
                   /\ SubSeq(sessions', 1, Len(sessions)) = sessions
                   /\ sessions'[Len(sessions')].userId = users[p.user].id
                   /\ resp'.token = {sessions'[Len(sessions')].token}
                   /\ users' = [users EXCEPT ![p.user].lastLogin = {now}]
                \/ /\ resp'.status \in {401, 500}
                   /\ users' = users /\ sessions' = sessions
       /\ (/\ Len(users') = Len(users)
           /\ \E i \in DOMAIN users : users'[i].lastLogin # users[i].lastLogin)
              => Len(sessions') = Len(sessions) + 1
      ]_vars

\* C10 witness: a login whose password matched failed at token signing,
\* and nothing is stored: no session, no lastLogin.
C10_Witness ==
    /\ resp.op = "login" /\ resp.status = 500
    /\ sessions = <<>>
    /\ users # <<>>
    /\ \A i \in DOMAIN users : users[i].lastLogin = {}

\* C11: logout with one token twice in a row leaves the session list that
\* logout with it once leaves: a served logout that directly follows a
\* served logout carrying the same token does not change the list.
C11_LogoutIdempotent ==
    [][(/\ resp.op = "logout" /\ resp.status = 200
        /\ resp'.op = "logout" /\ resp'.status = 200
        /\ resp'.reqToken = resp.reqToken)
          => sessions' = sessions
      ]_vars

\* C12: a step that adds a session appends one row and keeps every
\* existing row as it was; a logout keeps every row of a token it did not
\* carry; and a whoami that the general limiter admits, carrying a token
\* that was issued and not logged out since and that still verifies, finds
\* the token's row and is answered 200 while the row is unexpired, whatever
\* other tokens of the user were logged out.
C12_SessionsIndependent ==
    [][/\ Len(sessions') > Len(sessions)
            => /\ Len(sessions') = Len(sessions) + 1
               /\ SubSeq(sessions', 1, Len(sessions)) = sessions
       /\ resp'.op = "logout"
            => \A i \in DOMAIN sessions :
                  sessions[i].token \notin resp'.reqToken
                     => \E j \in DOMAIN sessions' : sessions'[j] = sessions[i]
       /\ (resp'.op = "me" /\ resp'.status # 429)
            => \A t \in resp'.reqToken :
                  (t \in issued \ revoked /\ ~jwtVerifyThrows(t, now))
                    => /\ findSessionIndex(t) # 0
                       /\ now < SessionOf(t).expiresAt => resp'.status = 200
      ]_vars

\* C12 witness: a whoami was answered 200 for one token of a user after
\* another token of that user, issued earlier, was logged out.
C12_Witness ==
    /\ resp.op = "me" /\ resp.status = 200
    /\ \E t \in resp.reqToken, r \in revoked :
            /\ r # t
            /\ r.userId = t.userId
            /\ r.iat < t.iat
            /\ \A i \in DOMAIN sessions : sessions[i].token # r

\* The stores and the suspended handlers are as they were.
NothingStarted ==
    /\ users' = users
    /\ sessions' = sessions
    /\ pendingRegister' = pendingRegister
    /\ pendingLogin' = pendingLogin

\* C13: for every client, the auth counter changes only by counting one
\* request or by the window turning over, and every register or login
\* request that passes the general policy is counted, whatever its outcome;
\* a request that is counted and not refused is one of the first 5 of its
\* window, and one counted when the counter has reached 5 is refused (429)
\* and starts nothing.  The same holds of the general counter with 100, for
\* requests of every operation.
C13_CountersBoundAdmission ==
    [][\A c \in Clients :
        /\ authHits'[c] # authHits[c]
              => \/ authHits'[c] = authHits[c] + 1
                 \/ authHits'[c] = 0 /\ now' \div WindowMs > now \div WindowMs
        /\ (/\ generalHits'[c] = generalHits[c] + 1
            /\ resp'.op \in {"register", "login", "none"}
            /\ ~limiterRejects(generalHits, c))
              => authHits'[c] = authHits[c] + 1
        /\ (authHits'[c] = authHits[c] + 1 /\ resp'.status # 429)
              => authHits'[c] <= AuthMax
        /\ (authHits'[c] = authHits[c] + 1 /\ authHits[c] >= AuthMax)
              => (resp'.status = 429 /\ NothingStarted)
        /\ generalHits'[c] # generalHits[c]
              => \/ generalHits'[c] > generalHits[c]
                 \/ generalHits'[c] = 0 /\ now' \div WindowMs > now \div WindowMs
        /\ (generalHits'[c] > generalHits[c] /\ resp'.status # 429)
              => generalHits'[c] <= GeneralMax
        /\ (generalHits'[c] > generalHits[c] /\ generalHits[c] >= GeneralMax)
              => (resp'.status = 429 /\ NothingStarted /\ authHits' = authHits)
      ]_vars

\* C13 witness: in one window the client's sixth register/login was refused
\* by the auth policy (a register among those counted), and later its 101st
\* request was refused by the general policy.
C13_Witness ==
    /\ resp.status = 429 /\ resp.msg = "too-many-requests"
    /\ users # <<>>
    /\ \E c \in Clients :
            generalHits[c] = GeneralMax + 1 /\ authHits[c] = AuthMax + 1

\* C14: a logout, whoami or stats request never changes the auth counter,
\* and is refused with 429 only by the general policy: when the client's
\* general counter is below its maximum the request is served, however many
\* register/login requests the client has sent in the window.
C14_AuthPolicyOnlyOnRegisterLogin ==
    [][\A c \in Clients :
        (resp'.op \in {"logout", "me", "stats"} /\ generalHits'[c] # generalHits[c])
            => /\ authHits' = authHits
               /\ resp'.status = 429 <=> limiterRejects(generalHits, c)
               /\ resp'.op \in {"logout", "stats"} /\ resp'.status # 429
                    => resp'.status = 200
      ]_vars

\* C14 witness: a whoami was answered 200 for a client whose auth policy is
\* exhausted in the current window (its sixth register/login was refused).
C14_Witness ==
    /\ resp.op = "me" /\ resp.status = 200
    /\ \E c \in Clients : authHits[c] > AuthMax

\* C15: the token a successful login returns decodes to the id of the user
\* whose password was verified; no step changes the id or email of a stored
\* user; and a whoami answered 200 returns the snapshot of the one user
\* whose id the token carries.
C15_TokenRoundTrip ==
    [][/\ \A p \in BagToSet(pendingLogin) :
              (resp'.op = "login" /\ resp'.status = 200 /\ LoginFinish(p))
                => /\ bcryptCompare(p.password, users[p.user].password)
                   /\ users[p.user].email = p.email
                   /\ resp'.token # {}
                   /\ \A t \in resp'.token : t.userId = users[p.user].id
       /\ \A i \in DOMAIN users :
              /\ i \in DOMAIN users'
              /\ users'[i].id = users[i].id
              /\ users'[i].email = users[i].email
       /\ (resp'.op = "me" /\ resp'.status = 200)
            => \A t \in resp'.reqToken :
                  \E i \in DOMAIN users :
                      /\ users[i].id = t.userId
                      /\ \A j \in DOMAIN users : users[j].id = t.userId => j = i
                      /\ resp'.user = {meResponse(users[i])}
      ]_vars

\* C15 witness: with two users stored, a whoami carrying the token of the
\* second user's login was answered 200 with the second user's snapshot.
C15_Witness ==
    /\ resp.op = "me" /\ resp.status = 200
    /\ Len(users) = 2
    /\ \E t \in resp.reqToken : t \in issued /\ t.userId = 2
    /\ resp.user = {meResponse(users[2])}

\* C16: in every reachable state every session row has
\* expiresAt = createdAt + 7 days.
C16_ExpiresSevenDaysAfterCreated ==
    \A i \in DOMAIN sessions :
        sessions[i].expiresAt = sessions[i].createdAt + SessionMs

\* C17: a register that succeeds (201) appends exactly one user record, with
\* the request's email, verified = false, profileComplete = false and no
\* lastLogin, keeps every existing record as it was, leaves the session list
\* unchanged and returns no token; and no other step adds a user.
C17_RegisterAddsOneUserOnly ==
    [][/\ \A b \in BagToSet(pendingRegister) :
              (resp'.op = "register" /\ resp'.status = 201 /\ RegisterFinish(b))
                => /\ Len(users') = Len(users) + 1
                   /\ SubSeq(users', 1, Len(users)) = users
                   /\ users'[Len(users')].email = b.email
                   /\ users'[Len(users')].verified = FALSE
                   /\ users'[Len(users')].profileComplete = FALSE
                   /\ users'[Len(users')].lastLogin = {}
                   /\ sessions' = sessions
                   /\ issued' = issued
                   /\ resp'.token = {}
       /\ Len(users') # Len(users)
            => (resp'.op = "register" /\ resp'.status = 201)
      ]_vars

\* C17 witness: a register succeeded while another user and a session of
\* that user were stored, and the session list still holds just that
\* session.
C17_Witness ==
    /\ resp.op = "register" /\ resp.status = 201
    /\ Len(users) = 2
    /\ Len(sessions) = 1
    /\ sessions[1].userId = 1
    /\ users[1].lastLogin # {}

\* C18: stats and whoami agree on expiry at every clock value.  With one
\* session stored, a stats answer directly followed, at the same instant, by
\* a whoami that carries the session's token (which verifies at that
\* instant): the session is counted in activeSessions exactly when the
\* whoami is answered 200.
C18_StatsAgreesWithWhoami ==
    [][(/\ resp.op = "stats" /\ resp.status = 200
        /\ resp'.op = "me" /\ resp'.status # 429
        /\ Len(sessions) = 1
        /\ resp'.reqToken = {sessions[1].token}
        /\ ~jwtVerifyThrows(sessions[1].token, now))
          => \A st \in resp.stats :
                st.activeSessions = 1 <=> resp'.status = 200
      ]_vars

\* C19: in every reachable state each session's userId is the id of a
\* stored user and is the userId its token carries; and a whoami carrying a
\* token that has a session row is never answered 404.
C19_SessionsReferToUsers ==
    /\ \A i \in DOMAIN sessions :
          /\ \E u \in DOMAIN users : users[u].id = sessions[i].userId
          /\ sessions[i].token.userId = sessions[i].userId
    /\ resp.op = "me"
          => \A t \in resp.reqToken : findSessionIndex(t) # 0 => resp.status # 404

\* C19 witness: two users each have a session, and a whoami carrying the
\* token of one of them was answered 200.
C19_Witness ==
    /\ resp.op = "me" /\ resp.status = 200
    /\ Len(sessions) = 2
    /\ sessions[1].userId # sessions[2].userId
    /\ \E t \in resp.reqToken : findSessionIndex(t) # 0

\* C20: in every reachable state the k-th user of the list has id k, and no
\* two users share an id.
C20_IdsDense ==
    /\ \A k \in DOMAIN users : users[k].id = k
    /\ \A i, j \in DOMAIN users : users[i].id = users[j].id => i = j

\* C20 witness: two register requests that overlapped at the hash await
\* (they stored the same email) have both completed.
C20_Witness ==
    /\ resp.op = "register" /\ resp.status = 201
    /\ Len(users) = 2
    /\ users[1].email = users[2].email
    /\ pendingRegister = EmptyBag
====
